---- MODULE Spec2Model ----
(***************************************************************************)
(* loadjs 2.1.2 (src/ajax/libs/loadjs/2.1.2/loadjs.umd.js): the bundle     *)
(* registry (subscribe / publish), the file load coordinator (loadFiles),  *)
(* the element event handler of loadFile and the public entry points       *)
(* loadjs, loadjs.ready and loadjs.done.                                   *)
(*                                                                         *)
(* JavaScript runs every handler to completion, so each public call and    *)
(* each DOM event is one action.  A handler that invokes user callbacks    *)
(* runs them inside the action: a user callback is a value saying which    *)
(* re-entrant API call it makes (none, done(id) or ready(ids)).  The       *)
(* program state travels through the handler as a record (see St).         *)
(*                                                                         *)
(* Besides the program state the model keeps history: the call just made   *)
(* (call), the events of the handler just run (trace), the first result    *)
(* published per bundle id (firstResult) and, inside the closures, how     *)
(* often and with what the user callbacks were invoked.                    *)
(***************************************************************************)
EXTENDS Integers, Sequences, FiniteSets, TLC

VARIABLES
    bundleIdCache,        \* keys of the object bundleIdCache (line 16)
    bundleResultCache,    \* object bundleResultCache: bundle id -> pathsNotFound
    bundleCallbackQueue,  \* object bundleCallbackQueue: bundle id -> array of fn
    subs,                 \* closures created by subscribe, in creation order
    loads,                \* closures created by loadFiles, in creation order
    call,                 \* history: the public call or DOM event just handled
    trace,                \* history: what the handler just run did, in order
    firstResult,          \* history: bundle id -> list of its first publish
    doneIds,              \* history: the ids loadjs.done was called with
    afterDone             \* history: the <<closure of subscribe, id>> pairs
                          \* such that done(id) was called before the
                          \* subscribe, or while the closure's fn was queued
                          \* for id and its callbackFn had not run

vars == <<bundleIdCache, bundleResultCache, bundleCallbackQueue, subs, loads,
          call, trace, firstResult, doneIds, afterDone>>

----------------------------------------------------------------------------
(* Bounds of the model. *)

\* Spec: closures created in a run (one per accepted loadjs call, one per
\* subscribe call, top-level or re-entrant)
MaxClosures == 3
\* LoadSpec: closures and elements created in a run (an accepted loadjs call
\* counts as one closure plus one element per path)
MaxWork == 4

----------------------------------------------------------------------------
(* Values. *)

BundleIds == {"b1", "b2"}

\* the value of the local `bundleId` of loadjs when arg1 is no non-empty
\* string (JavaScript undefined); only its falsiness is ever used
NoBundle == ""

Range(s) == {s[k] : k \in 1..Len(s)}

\* a partial map with no keys: a JavaScript object literal {}
EmptyObj == <<>>

\* obj[k] = v
Put(obj, k, v) == (k :> v) @@ obj

\* A user callback: absent from the args object, or a function that returns
\* without touching the library ("noop"), or one that calls loadjs.done(id)
\* or loadjs.ready(ids, {success: noop, fail: noop}) before it returns.
Absent == [op |-> "absent", ids |-> <<>>]
Noop == [op |-> "noop", ids |-> <<>>]
CallsDone(b) == [op |-> "done", ids |-> <<b>>]
CallsReady(bs) == [op |-> "ready", ids |-> bs]

\* an args object {success, fail}
Args(s, f) == [success |-> s, fail |-> f]
NoArgs == Args(Absent, Absent)
NoopArgs == Args(Noop, Noop)

\* A JavaScript argument value: undefined, a string, an array of strings or
\* an args object.
Undef == [t |-> "undef", s |-> "", l |-> <<>>, o |-> NoArgs]
Str(x) == [t |-> "str", s |-> x, l |-> <<>>, o |-> NoArgs]
Arr(xs) == [t |-> "arr", s |-> "", l |-> xs, o |-> NoArgs]
Obj(a) == [t |-> "obj", s |-> "", l |-> <<>>, o |-> a]

\* x.push ? x : [x]  (lines 28 and 141)
Listify(x) == IF x.t = "arr" THEN x.l ELSE <<x.s>>

\* an entry of trace
Ev(e, n, id, list) == [ev |-> e, n |-> n, id |-> id, list |-> list]

----------------------------------------------------------------------------
(* The program state as one value, threaded through a handler. *)

St == [ids |-> bundleIdCache, res |-> bundleResultCache,
       q |-> bundleCallbackQueue, subs |-> subs, loads |-> loads,
       trace |-> <<>>, first |-> firstResult, dones |-> doneIds,
       covered |-> afterDone]

Log(S, e) == [S EXCEPT !.trace = Append(@, e)]

\* The closure subscribe creates (lines 30-41): the captured bundleIds,
\* numWaiting, depsNotFound and callbackFn's args; and its history: seen is
\* the <<bundleId, pathsNotFound>> pairs fn was called with, queued the ids
\* whose queue fn was pushed to, drained the <<bundleId, pathsNotFound>> pairs
\* fn was called with out of a queue, calls / outcome / got are the
\* invocations of callbackFn, early says that callbackFn ran while a watched
\* id had no cached result.
NewSub(bundleIds, args) ==
    [bundleIds |-> bundleIds, numWaiting |-> Len(bundleIds),
     depsNotFound |-> <<>>, args |-> args,
     seen |-> <<>>, queued |-> <<>>, drained |-> <<>>, calls |-> 0,
     outcome |-> "",
     got |-> <<>>, early |-> FALSE]

RECURSIVE publish(_, _, _)
RECURSIVE drain(_, _, _)
RECURSIVE fn(_, _, _, _)
RECURSIVE readyCallback(_, _)
RECURSIVE invoke(_, _)
RECURSIVE subscribe(_, _, _)
RECURSIVE register(_, _, _)
RECURSIVE done(_, _)

\* A user callback runs: the re-entrant call it makes, if any.
invoke(S, cb) ==
    CASE cb.op = "done" -> done(S, cb.ids[1])
      [] cb.op = "ready" -> subscribe(S, cb.ids, NoopArgs)
      [] OTHER -> S

\* The callbackFn loadjs.ready passes to subscribe (lines 210-214).
readyCallback(S, w) ==
    LET depsNotFound == S.subs[w].depsNotFound
        kind == IF Len(depsNotFound) # 0 THEN "fail" ELSE "success"
        S1 == [S EXCEPT !.subs[w].calls = @ + 1,
                        !.subs[w].outcome = kind,
                        !.subs[w].got = depsNotFound,
                        !.subs[w].early =
                            @ \/ \E b \in Range(S.subs[w].bundleIds) :
                                    b \notin DOMAIN S.res]
    IN invoke(Log(S1, Ev("readycb", w, kind, depsNotFound)),
              S.subs[w].args[kind])

\* fn without the test of line 37: every settled id is pushed.
fn_AlwaysPush(S, w, bundleId, pathsNotFound) ==
    LET S1 == [S EXCEPT
                 !.subs[w].seen = Append(@, <<bundleId, pathsNotFound>>),
                 !.subs[w].depsNotFound = Append(@, bundleId),
                 !.subs[w].numWaiting = @ - 1]
        S2 == Log(S1, Ev("fn", w, bundleId, pathsNotFound))
    IN IF S2.subs[w].numWaiting = 0 THEN readyCallback(S2, w) ELSE S2

\* fn of closure w (lines 36-41).
fn(S, w, bundleId, pathsNotFound) ==
    LET S1 == [S EXCEPT
                 !.subs[w].seen = Append(@, <<bundleId, pathsNotFound>>),
                 !.subs[w].depsNotFound =
                     IF Len(pathsNotFound) # 0 THEN Append(@, bundleId) ELSE @,
                 !.subs[w].numWaiting = @ - 1]
        S2 == Log(S1, Ev("fn", w, bundleId, pathsNotFound))
    IN IF S2.subs[w].numWaiting = 0 THEN readyCallback(S2, w) ELSE S2

\* The loop without the continue of line 51: fn of a cached id is called and
\* queued as well.
register_NoContinue(S, w, i) ==
    IF i = 0 THEN S
    ELSE LET bundleId == S.subs[w].bundleIds[i]
             S1 == IF bundleId \in DOMAIN S.res
                   THEN fn(S, w, bundleId, S.res[bundleId]) ELSE S
             q == IF bundleId \in DOMAIN S1.q THEN S1.q[bundleId] ELSE <<>>
         IN register([S1 EXCEPT
                        !.q = Put(@, bundleId, Append(q, w)),
                        !.subs[w].queued = Append(@, bundleId)],
                     w, i - 1)

\* The loop without the call of line 50: a cached id is skipped.
register_SkipCached(S, w, i) ==
    IF i = 0 THEN S
    ELSE LET bundleId == S.subs[w].bundleIds[i]
         IN IF bundleId \in DOMAIN S.res
            THEN register(S, w, i - 1)
            ELSE LET q == IF bundleId \in DOMAIN S.q THEN S.q[bundleId]
                          ELSE <<>>
                 IN register([S EXCEPT
                                !.q = Put(@, bundleId, Append(q, w)),
                                !.subs[w].queued = Append(@, bundleId)],
                             w, i - 1)

\* The loop of subscribe for closure w, at index i (lines 44-57; i counts
\* down, bundleIds[i] here is the source's bundleIds[i-1]).
register(S, w, i) ==
    IF i = 0 THEN S
    ELSE LET bundleId == S.subs[w].bundleIds[i]
         IN IF bundleId \in DOMAIN S.res
            THEN register(fn(S, w, bundleId, S.res[bundleId]), w, i - 1)
            ELSE LET q == IF bundleId \in DOMAIN S.q THEN S.q[bundleId]
                          ELSE <<>>
                 IN register([S EXCEPT
                                !.q = Put(@, bundleId, Append(q, w)),
                                !.subs[w].queued = Append(@, bundleId)],
                             w, i - 1)

\* subscribe(bundleIds, callbackFn) with bundleIds already listified; the
\* callbackFn is the one of loadjs.ready, closed over args (lines 26-58).
subscribe(S, bundleIds, args) ==
    LET w == Len(S.subs) + 1
        S1 == [S EXCEPT
                 !.subs = Append(@, NewSub(bundleIds, args)),
                 !.covered = @ \cup {<<w, b>> :
                                        b \in Range(bundleIds) \cap S.dones}]
    IN register(Log(S1, Ev("subscribe", w, "", bundleIds)), w,
                Len(bundleIds))

\* The while loop of publish (lines 79-82): q[0] is called, then removed;
\* splice(0, 1) on an array a re-entrant publish has emptied removes nothing.
drain(S, bundleId, pathsNotFound) ==
    IF Len(S.q[bundleId]) = 0 THEN S
    ELSE LET w == Head(S.q[bundleId])
             S0 == [S EXCEPT !.subs[w].drained =
                        Append(@, <<bundleId, pathsNotFound>>)]
             S1 == fn(Log(S0, Ev("drain", w, bundleId, pathsNotFound)),
                      w, bundleId, pathsNotFound)
             S2 == [S1 EXCEPT !.q[bundleId] =
                        IF Len(@) = 0 THEN @ ELSE Tail(@)]
         IN drain(S2, bundleId, pathsNotFound)

\* publish with line 73 moved behind the loop: the queue is drained before
\* the result is cached.
publish_CacheAfterDrain(S, bundleId, pathsNotFound) ==
    IF bundleId = NoBundle THEN S
    ELSE LET hasQueue == bundleId \in DOMAIN S.q
             S1 == IF ~hasQueue THEN S
                   ELSE drain(S, bundleId, pathsNotFound)
             S2 == [S1 EXCEPT
                      !.res = Put(@, bundleId, pathsNotFound),
                      !.first = IF bundleId \in DOMAIN @ THEN @
                                ELSE Put(@, bundleId, pathsNotFound)]
         IN Log(S2, Ev("record", 0, bundleId, pathsNotFound))

\* publish without the test of line 68: an undefined id is published too.
publish_NoIdCheck(S, bundleId, pathsNotFound) ==
    LET hasQueue == bundleId \in DOMAIN S.q
        S1 == [S EXCEPT
                 !.res = Put(@, bundleId, pathsNotFound),
                 !.first = IF bundleId \in DOMAIN @ THEN @
                           ELSE Put(@, bundleId, pathsNotFound)]
        S2 == Log(S1, Ev("record", 0, bundleId, pathsNotFound))
    IN IF ~hasQueue THEN S2 ELSE drain(S2, bundleId, pathsNotFound)

\* publish without the loop of lines 79-82: the result is cached and the
\* queue is left as it is.
publish_NoDrain(S, bundleId, pathsNotFound) ==
    IF bundleId = NoBundle THEN S
    ELSE LET S1 == [S EXCEPT
                      !.res = Put(@, bundleId, pathsNotFound),
                      !.first = IF bundleId \in DOMAIN @ THEN @
                                ELSE Put(@, bundleId, pathsNotFound)]
         IN Log(S1, Ev("record", 0, bundleId, pathsNotFound))

\* publish(bundleId, pathsNotFound) (lines 66-83).
publish(S, bundleId, pathsNotFound) ==
    IF bundleId = NoBundle THEN S
    ELSE LET hasQueue == bundleId \in DOMAIN S.q
             S1 == [S EXCEPT
                      !.res = Put(@, bundleId, pathsNotFound),
                      !.first = IF bundleId \in DOMAIN @ THEN @
                                ELSE Put(@, bundleId, pathsNotFound)]
             S2 == Log(S1, Ev("record", 0, bundleId, pathsNotFound))
         IN IF ~hasQueue THEN S2 ELSE drain(S2, bundleId, pathsNotFound)

\* done that also marks the id as used (bundleIdCache[bundleId] = true).
done_MarksUsed(S, bundleId) ==
    LET S1 == [S EXCEPT
                 !.ids = @ \cup {bundleId},
                 !.dones = @ \cup {bundleId}]
    IN publish(Log(S1, Ev("done", 0, bundleId, <<>>)), bundleId, <<>>)

\* loadjs.done(bundleId) (lines 224-226).
done(S, bundleId) ==
    LET waiting == IF bundleId \in DOMAIN S.q
                   THEN {w \in Range(S.q[bundleId]) : S.subs[w].calls = 0}
                   ELSE {}
        S1 == [S EXCEPT
                 !.dones = @ \cup {bundleId},
                 !.covered = @ \cup {<<w, bundleId>> : w \in waiting}]
    IN publish(Log(S1, Ev("done", 0, bundleId, <<>>)), bundleId, <<>>)

----------------------------------------------------------------------------
(* The file load coordinator. *)

Paths == {"a.js", "b.js", "c.css"}

\* /\.css$/.test(path) (line 96), on the paths of the model
IsCss(path) == path \in {"c.css"}

\* args = (bundleId ? arg2 : arg1) || {}: what args.success and args.fail
\* are afterwards; every value but an args object has neither
ArgsOf(x) == IF x.t = "obj" THEN x.o ELSE NoArgs

\* The closure loadFiles creates (lines 143-159) with what its callbackFn
\* captured of loadjs (bundleId, args).  unit[i] is the element loadFile made
\* for paths[i]: "pending", or the result it delivered with its terminal
\* event.  History: cbCalls counts the runs of callbackFn, outcome is the
\* branch it took ("success" or "fail"), successCalls and failCalls count
\* the runs of the caller's own success and fail functions, failArg
\* is what fail got, published counts the publish calls made for this load,
\* arg1 and arg2 are the arguments loadjs was called with.
RECURSIVE Pending(_)
Pending(n) == IF n = 0 THEN <<>> ELSE Append(Pending(n - 1), "pending")

NewLoad(paths, bundleId, args, arg1, arg2) ==
    [paths |-> paths, bundleId |-> bundleId, args |-> args,
     numWaiting |-> Len(paths), pathsNotFound |-> <<>>,
     unit |-> Pending(Len(paths)),
     cbCalls |-> 0, outcome |-> "", successCalls |-> 0, failCalls |-> 0,
     failArg |-> <<>>,
     published |-> 0, arg1 |-> arg1, arg2 |-> arg2]

\* The callbackFn with line 198 moved before line 194: the bundle is
\* published before success or fail is called.
loadCallback_PublishFirst(S, l) ==
    LET pathsNotFound == S.loads[l].pathsNotFound
        args == S.loads[l].args
        kind == IF Len(pathsNotFound) # 0 THEN "fail" ELSE "success"
        S0 == [S EXCEPT !.loads[l].published = @ + 1]
        S1 == publish(Log(S0, Ev("publish", l, S.loads[l].bundleId,
                                 pathsNotFound)),
                      S.loads[l].bundleId, pathsNotFound)
        S2 == [S1 EXCEPT
                 !.loads[l].cbCalls = @ + 1,
                 !.loads[l].outcome = kind,
                 !.loads[l].failCalls =
                     IF kind = "fail" /\ args.fail.op # "absent"
                     THEN @ + 1 ELSE @,
                 !.loads[l].failArg =
                     IF kind = "fail" /\ args.fail.op # "absent"
                     THEN pathsNotFound ELSE @,
                 !.loads[l].successCalls =
                     IF kind = "success" /\ args.success.op # "absent"
                     THEN @ + 1 ELSE @]
    IN invoke(Log(S2, Ev("loadcb", l, kind, pathsNotFound)), args[kind])

\* The callbackFn loadjs passes to loadFiles (lines 192-199).
loadCallback(S, l) ==
    LET pathsNotFound == S.loads[l].pathsNotFound
        args == S.loads[l].args
        kind == IF Len(pathsNotFound) # 0 THEN "fail" ELSE "success"
        S1 == [S EXCEPT
                 !.loads[l].cbCalls = @ + 1,
                 !.loads[l].outcome = kind,
                 !.loads[l].failCalls =
                     IF kind = "fail" /\ args.fail.op # "absent"
                     THEN @ + 1 ELSE @,
                 !.loads[l].failArg =
                     IF kind = "fail" /\ args.fail.op # "absent"
                     THEN pathsNotFound ELSE @,
                 !.loads[l].successCalls =
                     IF kind = "success" /\ args.success.op # "absent"
                     THEN @ + 1 ELSE @]
        S2 == invoke(Log(S1, Ev("loadcb", l, kind, pathsNotFound)),
                     args[kind])
        S3 == [S2 EXCEPT !.loads[l].published = @ + 1]
    IN publish(Log(S3, Ev("publish", l, S.loads[l].bundleId, pathsNotFound)),
               S.loads[l].bundleId, pathsNotFound)

\* fn with lines 152-155 reduced to `if (result == 'b') return`: a prevented
\* beforeload is ignored like one that was not prevented.
loadFilesFn_IgnoreBlocked(S, l, i, result, defaultPrevented) ==
    LET path == S.loads[l].paths[i]
        S1 == [S EXCEPT
                 !.loads[l].pathsNotFound =
                     IF result = "e" THEN Append(@, path) ELSE @,
                 !.loads[l].numWaiting = @ - 1]
    IN IF result = "b" THEN S
       ELSE IF S1.loads[l].numWaiting = 0 THEN loadCallback(S1, l)
       ELSE S1

\* fn that gives up at the first failed path: callbackFn is called as soon as
\* a path is pushed to pathsNotFound.
loadFilesFn_FailFast(S, l, i, result, defaultPrevented) ==
    LET path == S.loads[l].paths[i]
        failed == result = "e" \/ (result = "b" /\ defaultPrevented)
        S1 == [S EXCEPT
                 !.loads[l].pathsNotFound =
                     IF failed THEN Append(@, path) ELSE @,
                 !.loads[l].numWaiting = @ - 1]
    IN IF result = "b" /\ ~defaultPrevented THEN S
       ELSE IF S1.loads[l].numWaiting = 0 \/ failed THEN loadCallback(S1, l)
       ELSE S1

\* fn without the `else return` of line 154: a beforeload that was not
\* prevented counts like a load event.
loadFilesFn_CountBeforeload(S, l, i, result, defaultPrevented) ==
    LET path == S.loads[l].paths[i]
        failed == result = "e" \/ (result = "b" /\ defaultPrevented)
        S1 == [S EXCEPT
                 !.loads[l].pathsNotFound =
                     IF failed THEN Append(@, path) ELSE @,
                 !.loads[l].numWaiting = @ - 1]
    IN IF S1.loads[l].numWaiting = 0 THEN loadCallback(S1, l) ELSE S1

\* fn with a return after the push of line 148: an error is recorded but not
\* counted.
loadFilesFn_ErrorNotCounted(S, l, i, result, defaultPrevented) ==
    LET path == S.loads[l].paths[i]
        failed == result = "e" \/ (result = "b" /\ defaultPrevented)
        S1 == [S EXCEPT
                 !.loads[l].pathsNotFound =
                     IF failed THEN Append(@, path) ELSE @,
                 !.loads[l].numWaiting = IF result = "e" THEN @ ELSE @ - 1]
    IN IF result = "b" /\ ~defaultPrevented THEN S
       ELSE IF result # "e" /\ S1.loads[l].numWaiting = 0
            THEN loadCallback(S1, l)
       ELSE S1

\* fn of loadFiles closure l, called for paths[i] (lines 146-159).
loadFilesFn(S, l, i, result, defaultPrevented) ==
    LET path == S.loads[l].paths[i]
        failed == result = "e" \/ (result = "b" /\ defaultPrevented)
        S1 == [S EXCEPT
                 !.loads[l].pathsNotFound =
                     IF failed THEN Append(@, path) ELSE @,
                 !.loads[l].numWaiting = @ - 1]
    IN IF result = "b" /\ ~defaultPrevented THEN S
       ELSE IF S1.loads[l].numWaiting = 0 THEN loadCallback(S1, l)
       ELSE S1

\* The handler loadFile installs as onload, onerror and onbeforeload of the
\* element of paths[i] (lines 110-127).  type is ev.type; emptySheet says that
\* the browser has hideFocus and the sheet's cssText is empty or unreadable.
\* The element's state is the environment's: it stays "pending" after a
\* beforeload that was not prevented and is resolved by any other event.
onEvent(S, l, i, type, defaultPrevented, emptySheet) ==
    LET path == S.loads[l].paths[i]
        result == IF IsCss(path) /\ emptySheet THEN "e"
                  ELSE CASE type = "load" -> "l"
                         [] type = "error" -> "e"
                         [] OTHER -> "b"
        terminal == ~(result = "b" /\ ~defaultPrevented)
        S1 == [S EXCEPT !.loads[l].unit[i] =
                            IF terminal THEN result ELSE @]
    IN loadFilesFn(Log(S1, Ev("event", l, path, <<result>>)), l, i, result,
                   defaultPrevented)

\* The for loop of loadFiles from index i on (line 162): loadFile creates
\* the element of paths[i] and adds it to the document (lines 91-131).
RECURSIVE loadFile(_, _, _)
loadFile(S, l, i) ==
    IF i > Len(S.loads[l].paths) THEN S
    ELSE loadFile(Log(S, Ev("loadFile", l, S.loads[l].paths[i], <<>>)),
                  l, i + 1)

\* loadFiles(paths, callbackFn, async) with paths already listified (lines
\* 139-163): the closure, then one loadFile per path.
loadFiles(S, paths, bundleId, args, arg1, arg2) ==
    LET l == Len(S.loads) + 1
        S1 == [S EXCEPT !.loads =
                   Append(@, NewLoad(paths, bundleId, args, arg1, arg2))]
    IN loadFile(S1, l, 1)

\* loadjs with line 180 reduced to `args = arg2 || {}`: the args object is
\* only looked for in third position.
loadjs_ArgsFromArg2(S, paths, arg1, arg2) ==
    LET bundleId == IF arg1.t = "str" /\ arg1.s # "" THEN arg1.s
                    ELSE NoBundle
        args == ArgsOf(arg2)
    IN IF bundleId # NoBundle /\ bundleId \in S.ids
       THEN Log(S, Ev("throw", 0, bundleId, <<>>))
       ELSE loadFiles(
                [S EXCEPT !.ids = IF bundleId # NoBundle
                                  THEN @ \cup {bundleId} ELSE @],
                Listify(paths), bundleId, args, arg1, arg2)

\* loadjs without the test of lines 183-186: a used id is loaded again.
loadjs_NoDuplicateCheck(S, paths, arg1, arg2) ==
    LET bundleId == IF arg1.t = "str" /\ arg1.s # "" THEN arg1.s
                    ELSE NoBundle
        args == ArgsOf(IF bundleId # NoBundle THEN arg2 ELSE arg1)
    IN loadFiles(
           [S EXCEPT !.ids = IF bundleId # NoBundle
                             THEN @ \cup {bundleId} ELSE @],
           Listify(paths), bundleId, args, arg1, arg2)

\* loadjs(paths, arg1, arg2) (lines 173-200).
loadjs(S, paths, arg1, arg2) ==
    LET bundleId == IF arg1.t = "str" /\ arg1.s # "" THEN arg1.s
                    ELSE NoBundle
        args == ArgsOf(IF bundleId # NoBundle THEN arg2 ELSE arg1)
    IN IF bundleId # NoBundle /\ bundleId \in S.ids
       THEN Log(S, Ev("throw", 0, bundleId, <<>>))
       ELSE loadFiles(
                [S EXCEPT !.ids = IF bundleId # NoBundle
                                  THEN @ \cup {bundleId} ELSE @],
                Listify(paths), bundleId, args, arg1, arg2)

\* loadjs.ready(deps, args) (lines 208-217).
ready(S, deps, args) == subscribe(S, Listify(deps), args)

----------------------------------------------------------------------------------------------------------------------------------------
(* The public calls and the browser's events, as actions. *)

Call(op, paths, arg1, arg2, l, i) ==
    [op |-> op, paths |-> paths, arg1 |-> arg1, arg2 |-> arg2,
     l |-> l, i |-> i]

Commit(S, c) ==
    /\ bundleIdCache' = S.ids
    /\ bundleResultCache' = S.res
    /\ bundleCallbackQueue' = S.q
    /\ subs' = S.subs
    /\ loads' = S.loads
    /\ trace' = S.trace
    /\ firstResult' = S.first
    /\ doneIds' = S.dones
    /\ afterDone' = S.covered
    /\ call' = c

Init ==
    /\ bundleIdCache = {}
    /\ bundleResultCache = EmptyObj
    /\ bundleCallbackQueue = EmptyObj
    /\ subs = <<>>
    /\ loads = <<>>
    /\ trace = <<>>
    /\ firstResult = EmptyObj
    /\ doneIds = {}
    /\ afterDone = {}
    /\ call = Call("init", Undef, Undef, Undef, 0, 0)

\* a caller calls loadjs(paths, arg1, arg2)
LoadCall(paths, arg1, arg2) ==
    Commit(loadjs(St, paths, arg1, arg2),
           Call("load", paths, arg1, arg2, 0, 0))

\* a caller calls loadjs.ready(deps, args)
ReadyCall(deps, args) ==
    Commit(ready(St, deps, args), Call("ready", deps, Obj(args), Undef, 0, 0))

\* a caller calls loadjs.done(bundleId)
DoneCall(bundleId) ==
    Commit(done(St, bundleId),
           Call("done", Str(bundleId), Undef, Undef, 0, 0))

\* the browser delivers an event of a pending element: ev.type, whether
\* ev.defaultPrevented (only beforeload can be cancelled), and whether the
\* sheet reads as empty on a browser that has hideFocus (only a link element
\* has a sheet)
ElementEvent(types) ==
    \E l \in 1..Len(loads) :
        \E i \in 1..Len(loads[l].paths) :
            \E type \in types, defaultPrevented, emptySheet \in BOOLEAN :
                /\ loads[l].unit[i] = "pending"
                /\ defaultPrevented => type = "beforeload"
                /\ emptySheet => IsCss(loads[l].paths[i])
                /\ Commit(onEvent(St, l, i, type, defaultPrevented,
                                  emptySheet),
                          Call("event", Str(type), Undef, Undef, l, i))

----------------------------------------------------------------------------
(* Spec: the bundle registry under named single-file loads, ready calls    *)
(* over one or several ids and done calls, with waiter callbacks that      *)
(* re-enter the library.                                                   *)

\* the (deps, args) of the ready calls
ReadyForms ==
    {<<Str("b1"), NoopArgs>>,
     <<Arr(<<"b1", "b2">>), NoopArgs>>,
     <<Arr(<<>>), NoArgs>>,
     <<Arr(<<"b2", "b2">>), NoopArgs>>,
     <<Str("b1"), Args(CallsDone("b1"), CallsDone("b1"))>>,
     <<Str("b2"), Args(CallsReady(<<"b1">>), CallsReady(<<"b1">>))>>,
     <<Str("b2"), Args(CallsReady(<<"b2">>), CallsReady(<<"b2">>))>>}

InBound == Len(loads') + Len(subs') <= MaxClosures

Load ==
    \E b \in BundleIds : LoadCall(Str("a.js"), Str(b), Undef) /\ InBound

Ready ==
    \E f \in ReadyForms : ReadyCall(f[1], f[2]) /\ InBound

Done ==
    \E b \in BundleIds : DoneCall(b) /\ InBound

Event == ElementEvent({"load", "error"}) /\ InBound

Next == Load \/ Ready \/ Done \/ Event

Spec == Init /\ [][Next]_vars

----------------------------------------------------------------------------
(* LoadSpec: the file load coordinator under loads of zero to three paths, *)
(* with and without a bundle id, the args object in either position, and a *)
(* registry that has waiters and done calls.                               *)

ThreePaths == Arr(<<"a.js", "b.js", "c.css">>)

\* the (paths, arg1, arg2) of the loadjs calls
LoadForms ==
    {<<ThreePaths, Undef, Obj(NoopArgs)>>,
     <<ThreePaths, Obj(NoopArgs), Undef>>,
     <<Arr(<<"b.js", "c.css">>), Str("b1"), Obj(NoopArgs)>>,
     <<Str("a.js"), Str("b1"),
       Obj(Args(CallsDone("b1"), CallsDone("b1")))>>,
     <<Str("a.js"), Str(""), Obj(NoopArgs)>>,
     <<Str("a.js"), Obj(NoopArgs), Undef>>,
     <<Arr(<<>>), Str("b2"), Obj(NoopArgs)>>}

RECURSIVE Elements(_)
Elements(ls) ==
    IF ls = <<>> THEN 0 ELSE Len(Head(ls).paths) + Elements(Tail(ls))

InWork == Len(loads') + Elements(loads') + Len(subs') <= MaxWork

LoadFiles ==
    \E f \in LoadForms : LoadCall(f[1], f[2], f[3]) /\ InWork

LoadReady ==
    \E deps \in {Str("b1"), Arr(<<"b1", "b2">>)} :
        ReadyCall(deps, NoopArgs) /\ InWork

LoadDone ==
    \E b \in BundleIds : DoneCall(b) /\ InWork

LoadEvent == ElementEvent({"load", "error", "beforeload"}) /\ InWork

LoadNext == LoadFiles \/ LoadReady \/ LoadDone \/ LoadEvent

LoadSpec == Init /\ [][LoadNext]_vars

----------------------------------------------------------------------------
(* The claims. *)

\* C1: a bundle id that has a published result keeps it: in every reachable
\* state the cached failed-path list of an id equals the list of its first
\* publish.
C1_ResultNeverChanges ==
    \A b \in DOMAIN bundleResultCache :
        bundleResultCache[b] = firstResult[b]

\* C2: a loadjs call whose bundle id is already in the used-id set throws
\* and does nothing else: no loadFile, no new closure (so no callback of
\* that call can ever run), and the used-id set, the result cache, the
\* queues, the waiters and every earlier load's closure are as before.
C2_DuplicateLoadThrows ==
    [][(call'.op = "load" /\ call'.arg1.s \in bundleIdCache)
       => /\ trace' = <<Ev("throw", 0, call'.arg1.s, <<>>)>>
          /\ UNCHANGED <<bundleIdCache, bundleResultCache,
                         bundleCallbackQueue, subs, loads, firstResult,
                         doneIds, afterDone>>]_vars

\* C2 witness: a second load of an id threw while the first load of that id
\* was still waiting for its file.
C2_Witness ==
    /\ call.op = "load"
    /\ Len(trace) = 1 /\ trace[1].ev = "throw"
    /\ \E l \in 1..Len(loads) :
           /\ loads[l].bundleId = call.arg1.s
           /\ loads[l].numWaiting = 1

\* C3: the callback of a ready registration runs at most once, and never
\* while a bundle id it watches has no published result.
C3_WaiterOnceAndNotEarly ==
    \A w \in 1..Len(subs) : subs[w].calls <= 1 /\ ~subs[w].early

\* C3 witness: a waiter whose callback called done re-entrantly had its
\* handler run a second time for the same id, and its callback ran once.
C3_Witness ==
    \E w \in 1..Len(subs) :
        /\ subs[w].calls = 1
        /\ subs[w].args.success.op = "done"
        /\ Len(subs[w].seen) > Len(subs[w].bundleIds)

\* every id closure w watches has a cached result
AllSettled(w) ==
    \A b \in Range(subs[w].bundleIds) : b \in DOMAIN bundleResultCache

\* C4 as stated: for any list of ids passed to ready, once every requested
\* id has settled (at the end of the ready call if all were cached, else at
\* the end of the publish settling the last one) the callback has fired.
C4_FiresWhenAllSettled ==
    \A w \in 1..Len(subs) : AllSettled(w) => subs[w].calls = 1

\* C4 amended: for any non-empty list of ids passed to ready, the callback
\* has fired exactly when every requested id has settled: by the end of the
\* ready call if all were cached, else by the end of the publish settling
\* the last one, whether an id was served from the cache or from its queue.
C4_NonEmptyFiresWhenAllSettled ==
    \A w \in 1..Len(subs) :
        Len(subs[w].bundleIds) > 0
        => (AllSettled(w) <=> subs[w].calls = 1)

\* C4 witness: a waiter on b1 and b2 found b2 in the cache, was queued on
\* b1, and fired in the handler that published b1.
C4_Witness ==
    \E w \in 1..Len(subs) :
        /\ subs[w].bundleIds = <<"b1", "b2">>
        /\ subs[w].queued = <<"b1">>
        /\ subs[w].calls = 1
        /\ \E k \in 1..Len(trace) :
               trace[k].ev = "readycb" /\ trace[k].n = w

\* the set of ids of the first n entries of a list of <<id, list>> pairs
\* whose list is non-empty
FailedIn(seen, n) ==
    {seen[k][1] : k \in {j \in 1..n : Len(seen[j][2]) # 0}}

\* C5: the list a waiter's callback receives holds exactly the watched ids
\* whose result, as handed to the waiter's handler (from the cache at the
\* ready call, or by the publish that drained the handler), had failed
\* paths; it holds bundle ids only; success runs when the list is empty and
\* fail, with the list, otherwise.
C5_WaiterGetsFailedIds ==
    \A w \in 1..Len(subs) :
        subs[w].calls >= 1
        => /\ Range(subs[w].got)
                = FailedIn(subs[w].seen, Len(subs[w].bundleIds))
           /\ Range(subs[w].got) \subseteq Range(subs[w].bundleIds)
           /\ Range(subs[w].got) \cap Paths = {}
           /\ subs[w].outcome
                = IF Len(subs[w].got) = 0 THEN "success" ELSE "fail"

\* C5 witness: the load of b1 settled with no failed path, the load of b2
\* with one, and ready(["b1", "b2"]) got fail once with ["b2"].
C5_Witness ==
    /\ \E l \in 1..Len(loads) :
           /\ loads[l].bundleId = "b1" /\ loads[l].cbCalls = 1
           /\ loads[l].pathsNotFound = <<>>
    /\ \E l \in 1..Len(loads) :
           /\ loads[l].bundleId = "b2" /\ loads[l].cbCalls = 1
           /\ loads[l].pathsNotFound = <<"a.js">>
    /\ \E w \in 1..Len(subs) :
           /\ subs[w].bundleIds = <<"b1", "b2">>
           /\ subs[w].calls = 1
           /\ subs[w].outcome = "fail"
           /\ subs[w].got = <<"b2">>

\* load l is a load of three paths whose second path resolved as error and
\* whose first and third path resolved as success
SecondOfThreeFailed(l) ==
    /\ Len(loads[l].paths) = 3
    /\ loads[l].unit = <<"l", "e", "l">>

\* C6 as stated: loadjs(paths, undefined, {fail}) with three paths of which
\* the second resolves as error and the others as success calls fail once
\* with the list of the second path, in every completion order.
C6_FailWithArgsThird ==
    \A l \in 1..Len(loads) :
        /\ loads[l].arg1 = Undef
        /\ loads[l].arg2.t = "obj" /\ loads[l].arg2.o.fail.op # "absent"
        /\ SecondOfThreeFailed(l)
        => /\ loads[l].failCalls = 1
           /\ loads[l].failArg = <<loads[l].paths[2]>>

\* C6 amended: loadjs(paths, {fail}), the args object in second position
\* when no bundle id is given, with three paths of which the second resolves
\* as error and the others as success calls fail once with the list of the
\* second path, in every completion order (and never calls success).
C6_FailWithArgsSecond ==
    \A l \in 1..Len(loads) :
        /\ loads[l].arg1.t = "obj" /\ loads[l].arg1.o.fail.op # "absent"
        /\ SecondOfThreeFailed(l)
        => /\ loads[l].failCalls = 1
           /\ loads[l].failArg = <<loads[l].paths[2]>>
           /\ loads[l].successCalls = 0

\* C6 witness: such a load, args in second position, got fail(["b.js"]) in
\* the handler of its first path's load event, the second path having failed
\* before.
C6_Witness ==
    /\ call.op = "event" /\ call.i = 1
    /\ loads[call.l].arg1.t = "obj"
    /\ SecondOfThreeFailed(call.l)
    /\ loads[call.l].failCalls = 1
    /\ loads[call.l].failArg = <<"b.js">>

\* every element load l created has delivered its terminal event
AllResolved(l) ==
    \A i \in 1..Len(loads[l].paths) : loads[l].unit[i] # "pending"

\* what holds of load l once it is complete: the counter is zero, callbackFn
\* ran once and took the success branch exactly if no path failed, the
\* caller's own function of that branch ran once if it was given and the
\* other one never, and publish was called once
Completed(l) ==
    /\ loads[l].numWaiting = 0
    /\ loads[l].cbCalls = 1
    /\ loads[l].outcome
         = IF Len(loads[l].pathsNotFound) = 0 THEN "success" ELSE "fail"
    /\ loads[l].successCalls
         = IF loads[l].outcome = "success"
              /\ loads[l].args.success.op # "absent" THEN 1 ELSE 0
    /\ loads[l].failCalls
         = IF loads[l].outcome = "fail"
              /\ loads[l].args.fail.op # "absent" THEN 1 ELSE 0
    /\ loads[l].failCalls = 1 => loads[l].failArg = loads[l].pathsNotFound
    /\ loads[l].published = 1

\* in the handler just run, every run of a load's callbackFn is followed by
\* publish(bundleId, pathsNotFound) of that load
PublishFollows ==
    \A k \in 1..Len(trace) :
        trace[k].ev = "loadcb"
        => \E j \in (k + 1)..Len(trace) :
               trace[j] = Ev("publish", trace[k].n,
                             loads[trace[k].n].bundleId, trace[k].list)

\* C7 as stated: for every load, whatever its list of paths, once every
\* dispatched element has resolved the counter is zero and exactly one of
\* success and fail(pathsNotFound) has been called once, followed by
\* publish(bundleId, pathsNotFound).
C7_CompleteWhenAllResolved ==
    /\ \A l \in 1..Len(loads) : AllResolved(l) => Completed(l)
    /\ PublishFollows

\* C7 amended: the same for every load of at least one path.
C7_NonEmptyCompleteWhenAllResolved ==
    /\ \A l \in 1..Len(loads) :
           Len(loads[l].paths) > 0 /\ AllResolved(l) => Completed(l)
    /\ PublishFollows

\* C7 witness: a load of several paths with a bundle id completed with a
\* failed path in the handler just run, and its list is the bundle's result.
C7_Witness ==
    /\ call.op = "event"
    /\ Len(loads[call.l].paths) >= 2
    /\ AllResolved(call.l)
    /\ loads[call.l].failCalls = 1
    /\ loads[call.l].bundleId \in DOMAIN bundleResultCache
    /\ bundleResultCache[loads[call.l].bundleId]
         = loads[call.l].pathsNotFound

\* C8: for a load with a bundle id, success or fail is called before the
\* publish of that load records the bundle's result and before it notifies
\* any waiter of the bundle, and neither the callback nor the publish
\* happens while an element of the load is unresolved.
C8_CallbackBeforePublish ==
    /\ \A k \in 1..Len(trace) :
           trace[k].ev = "loadcb" /\ loads[trace[k].n].bundleId # NoBundle
           => /\ \A j \in 1..Len(trace) :
                     /\ trace[j].ev \in {"publish", "record", "fn"}
                     /\ trace[j].id = loads[trace[k].n].bundleId
                     => j > k
              /\ \E j \in 1..Len(trace) :
                     trace[j] = Ev("record", 0, loads[trace[k].n].bundleId,
                                   trace[k].list)
    /\ \A l \in 1..Len(loads) :
           loads[l].cbCalls > 0 \/ loads[l].published > 0 => AllResolved(l)

\* C8 witness: the last element of a two-path load of b1 resolved; in that
\* handler the load's callback ran, then the result was recorded, then the
\* waiter queued on b1 was notified.
C8_Witness ==
    /\ call.op = "event"
    /\ Len(loads[call.l].paths) = 2 /\ loads[call.l].bundleId = "b1"
    /\ \E k, j, m \in 1..Len(trace) :
           /\ k < j /\ j < m
           /\ trace[k].ev = "loadcb"
           /\ trace[j].ev = "record" /\ trace[j].id = "b1"
           /\ trace[m].ev = "fn" /\ trace[m].id = "b1"

\* C9: after done(x), a waiter that was queued on x at that call or that is
\* registered later, and that watches only x, gets success and never fail,
\* whatever load, done and ready calls happen in between.
C9_DoneMeansSuccess ==
    \A w \in 1..Len(subs) :
        \A x \in BundleIds :
            subs[w].bundleIds = <<x>> /\ <<w, x>> \in afterDone
            => subs[w].calls = 1 /\ subs[w].outcome = "success"

\* C10: a ready call on one or more ids that all have a cached result, with
\* callbacks that do not themselves call the library, runs the callback in
\* that call (fail with the ids whose cached list is non-empty, success if
\* there is none), calls no loadFile and leaves the used-id set, the result
\* cache, every queue, every load and every earlier waiter as they were.
C10_ReadyOnSettledIds ==
    [][(/\ call'.op = "ready"
        /\ Len(Listify(call'.paths)) > 0
        /\ \A b \in Range(Listify(call'.paths)) :
               b \in DOMAIN bundleResultCache
        /\ call'.arg1.o \in {NoArgs, NoopArgs})
       => LET deps == Listify(call'.paths)
              failed == {b \in Range(deps) : Len(bundleResultCache[b]) # 0}
              w == Len(subs) + 1
          IN /\ Len(subs') = w
             /\ SubSeq(subs', 1, Len(subs)) = subs
             /\ subs'[w].calls = 1
             /\ subs'[w].outcome
                  = IF failed = {} THEN "success" ELSE "fail"
             /\ Range(subs'[w].got) = failed
             /\ \A k \in 1..Len(trace') : trace'[k].ev # "loadFile"
             /\ UNCHANGED <<bundleIdCache, bundleResultCache,
                            bundleCallbackQueue, loads>>]_vars

\* C10 witness: ready(["b1", "b2"]) was called when both ids had a cached
\* result, one of them with a failed path, and fail ran in that call.
C10_Witness ==
    /\ call.op = "ready"
    /\ subs[Len(subs)].bundleIds = <<"b1", "b2">>
    /\ subs[Len(subs)].queued = <<>>
    /\ subs[Len(subs)].calls = 1
    /\ subs[Len(subs)].outcome = "fail"

\* the handler just run was a loadjs call without a bundle id (arg1 is no
\* non-empty string), or an event of an element of such a load
AnonymousStep ==
    \/ call'.op = "load" /\ ~(call'.arg1.t = "str" /\ call'.arg1.s # "")
    \/ call'.op = "event" /\ loads[call'.l].bundleId = NoBundle

\* a load without a bundle id, from its loadjs call to its last event, leaves
\* the used-id set, the result cache and every queue as they were
AnonymousLeavesRegistry ==
    [][AnonymousStep
       => UNCHANGED <<bundleIdCache, bundleResultCache,
                      bundleCallbackQueue>>]_vars

\* load l has no bundle id and one path, and that path resolved as success
AnonymousSingleSuccess(l) ==
    /\ loads[l].bundleId = NoBundle
    /\ Len(loads[l].paths) = 1
    /\ loads[l].unit = <<"l">>

\* C11 as stated: a load without a bundle id (none, or the empty string)
\* never changes the used-id set, the result cache or a queue; and if it has
\* one path and that path loads, the success function the caller gave is
\* called.
C11_AnonymousLoad ==
    /\ AnonymousLeavesRegistry
    /\ [](\A l \in 1..Len(loads) :
             /\ AnonymousSingleSuccess(l)
             /\ \/ loads[l].arg1.t = "obj" /\ loads[l].arg1.o.success.op # "absent"
                \/ loads[l].arg2.t = "obj" /\ loads[l].arg2.o.success.op # "absent"
             => loads[l].successCalls = 1)

\* C11 amended: a load without a bundle id (none, or the empty string) never
\* changes the used-id set, the result cache or a queue; and if it has one
\* path, that path loads, and the args object was passed in second position
\* (no bundle id argument at all), its success function is called once and
\* fail never.
C11_AnonymousLoadArgsSecond ==
    /\ AnonymousLeavesRegistry
    /\ [](\A l \in 1..Len(loads) :
             /\ AnonymousSingleSuccess(l)
             /\ loads[l].arg1.t = "obj" /\ loads[l].arg1.o.success.op # "absent"
             => loads[l].successCalls = 1 /\ loads[l].failCalls = 0)

\* C11 witness: the file of loadjs("a.js", {success}) loaded and success was
\* called, while a waiter sat in a queue of the registry.
C11_Witness ==
    /\ call.op = "event"
    /\ AnonymousSingleSuccess(call.l)
    /\ loads[call.l].arg1.t = "obj"
    /\ loads[call.l].successCalls = 1
    /\ \E b \in DOMAIN bundleCallbackQueue : Len(bundleCallbackQueue[b]) > 0

\* the elements of load l that resolved as error or as a prevented
\* beforeload
FailedUnits(l) ==
    {i \in 1..Len(loads[l].paths) : loads[l].unit[i] \in {"e", "b"}}

\* pathsNotFound of every load grows by the path of an element exactly in the
\* handler of that element's failing terminal event, at the end, and changes
\* in no other way: its order is the order of completion
FailedInCompletionOrder ==
    [][\A l \in 1..Len(loads) :
           loads'[l].pathsNotFound
             = IF /\ call'.op = "event" /\ call'.l = l
                  /\ loads'[l].unit[call'.i] \in {"e", "b"}
               THEN Append(loads[l].pathsNotFound, loads[l].paths[call'.i])
               ELSE loads[l].pathsNotFound]_vars

\* pathsNotFound of load l holds exactly the paths of its failed elements,
\* each once; while an element is unresolved the load has not called back
\* or published, whatever failed before; what fail got is pathsNotFound
FailedListOf(l) ==
    /\ Range(loads[l].pathsNotFound)
         = {loads[l].paths[i] : i \in FailedUnits(l)}
    /\ Len(loads[l].pathsNotFound) = Cardinality(FailedUnits(l))
    /\ ~AllResolved(l) => loads[l].cbCalls = 0 /\ loads[l].published = 0
    /\ loads[l].failCalls = 1 => loads[l].failArg = loads[l].pathsNotFound
    /\ /\ Len(loads[l].paths) > 0 /\ AllResolved(l)
       /\ FailedUnits(l) # {} /\ loads[l].args.fail.op # "absent"
       => loads[l].failCalls = 1

\* the handler that completes a load publishes the load's pathsNotFound, and
\* at its end that list is the cached result of the load's bundle
PublishedIsFailedList ==
    call.op = "event" /\ loads[call.l].cbCalls = 1
    => /\ \E k \in 1..Len(trace) :
              trace[k] = Ev("publish", call.l, loads[call.l].bundleId,
                            loads[call.l].pathsNotFound)
       /\ loads[call.l].bundleId # NoBundle
          => bundleResultCache[loads[call.l].bundleId]
               = loads[call.l].pathsNotFound

\* C12: the list given to fail and published for the bundle holds exactly
\* the paths of the load whose element resolved as error or as a prevented
\* beforeload, each once, in the order the elements completed; a failed path
\* does not end the wait for the other paths; the set of failed paths
\* depends only on the outcome of each path.
C12_FailedPathsList ==
    /\ FailedInCompletionOrder
    /\ [](/\ \A l \in 1..Len(loads) : FailedListOf(l)
          /\ PublishedIsFailedList)

\* C12 witness: in the load of ["b.js", "c.css"] as b1, c.css failed first
\* and b.js was blocked afterwards; fail got ["c.css", "b.js"], and that is
\* the result published for b1.
C12_Witness ==
    /\ call.op = "event"
    /\ loads[call.l].paths = <<"b.js", "c.css">>
    /\ loads[call.l].unit = <<"b", "e">>
    /\ loads[call.l].failCalls = 1
    /\ loads[call.l].failArg = <<"c.css", "b.js">>
    /\ bundleResultCache["b1"] = <<"c.css", "b.js">>

\* the number of entries of a list of ids that are b
RECURSIVE CountId(_, _)
CountId(list, b) ==
    IF list = <<>> THEN 0
    ELSE (IF Head(list) = b THEN 1 ELSE 0) + CountId(Tail(list), b)

\* the ids of a list of <<id, list>> pairs
RECURSIVE IdsOf(_)
IdsOf(pairs) ==
    IF pairs = <<>> THEN <<>> ELSE <<Head(pairs)[1]>> \o IdsOf(Tail(pairs))

\* C13: a handler pushed to the queue of a bundle id is called out of the
\* queue once for every push, not before the id has a result and with the
\* list of the id's first publish; the handlers of an id are called in the
\* order they were pushed; also when a waiter's callback calls done or ready
\* for the id while the queue is drained.
C13_QueuedHandlerOnceInOrder ==
    /\ \A w \in 1..Len(subs) :
           /\ \A b \in BundleIds :
                  CountId(IdsOf(subs[w].drained), b)
                    = IF b \in DOMAIN bundleResultCache
                      THEN CountId(subs[w].queued, b) ELSE 0
           /\ \A k \in 1..Len(subs[w].drained) :
                  subs[w].drained[k][2] = firstResult[subs[w].drained[k][1]]
    /\ \A j, k \in 1..Len(trace) :
           /\ j < k
           /\ trace[j].ev = "drain" /\ trace[k].ev = "drain"
           /\ trace[j].id = trace[k].id
           => trace[j].n <= trace[k].n

\* the handler just run was fn called with result 'b' and defaultPrevented
\* false: the event gave 'b' and left its element unresolved
IgnoredBeforeload ==
    /\ call.op = "event"
    /\ trace[1] = Ev("event", call.l, loads[call.l].paths[call.i], <<"b">>)
    /\ loads[call.l].unit[call.i] = "pending"

\* such a handler changes no load (counter, pathsNotFound, callbacks) and
\* nothing of the registry, and does nothing but receive the event
IgnoredBeforeloadChangesNothing ==
    [][IgnoredBeforeload'
       => /\ Len(trace') = 1
          /\ UNCHANGED <<loads, subs, bundleIdCache, bundleResultCache,
                         bundleCallbackQueue>>]_vars

\* while an element of load l is unresolved, the load has called neither
\* success nor fail and has not published, and its bundle has no result
\* unless loadjs.done was called for the id
UnresolvedLoadIsSilent(l) ==
    ~AllResolved(l)
    => /\ loads[l].cbCalls = 0
       /\ loads[l].successCalls = 0 /\ loads[l].failCalls = 0
       /\ loads[l].published = 0
       /\ loads[l].numWaiting
            = Cardinality({i \in 1..Len(loads[l].paths) :
                              loads[l].unit[i] = "pending"})
       /\ loads[l].bundleId \notin doneIds
          => loads[l].bundleId \notin DOMAIN bundleResultCache

\* C14: a beforeload event that was not prevented changes neither the
\* counter nor pathsNotFound and calls nothing; its element counts only with
\* a later event that resolves it (load, error or prevented beforeload), and
\* as long as none comes the load calls neither success nor fail and does
\* not settle its bundle.
C14_UnpreventedBeforeloadIgnored ==
    /\ IgnoredBeforeloadChangesNothing
    /\ [](\A l \in 1..Len(loads) : UnresolvedLoadIsSilent(l))

\* C14 witness: the last unresolved element of the two-path load of b1, one
\* path of which had failed, fired a beforeload that was not prevented; the
\* counter is still 1 and b1 has no result.
C14_Witness ==
    /\ IgnoredBeforeload
    /\ loads[call.l].bundleId = "b1"
    /\ Len(loads[call.l].paths) = 2
    /\ loads[call.l].numWaiting = 1
    /\ Len(loads[call.l].pathsNotFound) = 1
    /\ "b1" \notin DOMAIN bundleResultCache

\* trace[k] is a subscribe made by a callback for a list of ids that holds
\* b, after the drain of b's queue began in the same handler
SubscribeDuringDrain(k, b) ==
    /\ trace[k].ev = "subscribe"
    /\ b \in Range(trace[k].list)
    /\ \E j \in 1..(k - 1) : trace[j].ev = "drain" /\ trace[j].id = b

\* C15: a subscribe for bundle id b made by a callback while publish(b)
\* drains b's queue is settled for b in that pass: its handler is called for
\* b (with b's cached result) before the outermost publish returns, it is
\* not left in b's queue, and b's queue is empty afterwards.
C15_ReentrantSubscribeSettled ==
    \A k \in 1..Len(trace) :
        \A b \in BundleIds :
            SubscribeDuringDrain(k, b)
            => /\ \E m \in (k + 1)..Len(trace) :
                      trace[m] = Ev("fn", trace[k].n, b, bundleResultCache[b])
               /\ CountId(IdsOf(subs[trace[k].n].seen), b)
                    = CountId(subs[trace[k].n].bundleIds, b)
               /\ bundleCallbackQueue[b] = <<>>

\* C15 witness: while done(b2) drained the queue of b2, the callback of the
\* waiter at its head called ready(b2) while a second waiter was still
\* queued behind it; the new closure's handler ran for b2 in that handler
\* and its callback was called.
C15_Witness ==
    /\ call.op = "done" /\ call.paths = Str("b2")
    /\ \E k \in 1..Len(trace) :
           /\ SubscribeDuringDrain(k, "b2")
           /\ subs[trace[k].n].calls = 1
           /\ subs[trace[k].n].queued = <<>>
           /\ \E m \in (k + 1)..Len(trace) :
                  trace[m].ev = "drain" /\ trace[m].n # trace[k].n

\* a load of bundle id b has an unresolved element
LoadInProgress(b) ==
    \E l \in 1..Len(loads) : loads[l].bundleId = b /\ ~AllResolved(l)

\* C16 as stated: over any sequence of load, done and element events, an id
\* has a recorded result only after a load registered it, and an id that
\* has a recorded result has no load in progress.
C16_Lifecycle ==
    \A b \in DOMAIN bundleResultCache :
        b \in bundleIdCache /\ ~LoadInProgress(b)

\* C16 amended: an id that loadjs.done was never called with has a recorded
\* result only after a load registered it, and once it has one it has no
\* load in progress.
C16_LifecycleWithoutDone ==
    \A b \in DOMAIN bundleResultCache :
        b \notin doneIds => b \in bundleIdCache /\ ~LoadInProgress(b)

\* C16 witness: an id settled by its load, never passed to done, was loaded
\* again and the call threw.
C16_Witness ==
    /\ call.op = "load"
    /\ trace = <<Ev("throw", 0, call.arg1.s, <<>>)>>
    /\ call.arg1.s \in DOMAIN bundleResultCache
    /\ call.arg1.s \notin doneIds
    /\ ~LoadInProgress(call.arg1.s)

\* the queue of bundle id b in the object queues (absent reads as empty)
QueueOf(queues, b) == IF b \in DOMAIN queues THEN queues[b] ELSE <<>>

\* a ready call leaves the queue of every id it names that has a cached
\* result as it was, and its closure is pushed to no such queue
ReadyOnCachedIdAppendsNothing ==
    [][call'.op = "ready"
       => \A b \in Range(Listify(call'.paths)) \cap DOMAIN bundleResultCache :
              /\ QueueOf(bundleCallbackQueue', b)
                   = QueueOf(bundleCallbackQueue, b)
              /\ b \notin Range(subs'[Len(subs) + 1].queued)]_vars

\* C17: between handlers (no publish is in progress) every bundle id that
\* has a cached result has an empty or absent queue; a ready call on a
\* cached id appends nothing to that id's queue.
C17_CachedIdHasEmptyQueue ==
    /\ [](\A b \in DOMAIN bundleResultCache :
             QueueOf(bundleCallbackQueue, b) = <<>>)
    /\ ReadyOnCachedIdAppendsNothing

\* C17 witness: ready(["b1", "b2"]) was called when b2 had a cached result
\* and a drained queue and b1 had none: the closure was pushed to the queue
\* of b1 only, and the queue of b2 is still empty.
C17_Witness ==
    /\ call.op = "ready"
    /\ subs[Len(subs)].bundleIds = <<"b1", "b2">>
    /\ subs[Len(subs)].queued = <<"b1">>
    /\ "b2" \in DOMAIN bundleResultCache
    /\ "b2" \in DOMAIN bundleCallbackQueue
    /\ bundleCallbackQueue["b2"] = <<>>
    /\ bundleCallbackQueue["b1"] = <<Len(subs)>>

\* the bundle id of a loadjs call (NoBundle if arg1 is no non-empty string)
BundleIdOf(c) == IF c.arg1.t = "str" THEN c.arg1.s ELSE NoBundle

\* the handler just run threw
Threw == \E k \in 1..Len(trace) : trace[k].ev = "throw"

\* a done call does not throw and leaves the used-id set as it was
DoneLeavesUsedIds ==
    [][call'.op = "done" => ~Threw' /\ UNCHANGED bundleIdCache]_vars

\* a loadjs call with a bundle id that no earlier loadjs call used, done
\* having been called for it or not, does not throw, marks the id used and
\* calls loadFile for each of its paths
FirstLoadAccepted ==
    [][(/\ call'.op = "load"
        /\ BundleIdOf(call') # NoBundle
        /\ BundleIdOf(call') \notin bundleIdCache)
       => /\ ~Threw'
          /\ Len(loads') = Len(loads) + 1
          /\ loads'[Len(loads')].bundleId = BundleIdOf(call')
          /\ loads'[Len(loads')].paths = Listify(call'.paths)
          /\ \A i \in 1..Len(Listify(call'.paths)) :
                 trace'[i] = Ev("loadFile", Len(loads'),
                               Listify(call'.paths)[i], <<>>)]_vars

\* the used-id set changes only by gaining the bundle id of a loadjs call
\* that did not throw
UsedIdsGrowByAcceptedLoads ==
    [][bundleIdCache'
         = bundleIdCache
             \cup (IF /\ call'.op = "load" /\ ~Threw'
                      /\ BundleIdOf(call') # NoBundle
                   THEN {BundleIdOf(call')} ELSE {})]_vars

\* C18: done(x) never adds x to the used-id set and never throws, whether x
\* was registered or published before or not; so the first loadjs call with
\* id x after done(x) is accepted and calls loadFile for its paths; the
\* used-id set only grows, by the id of each accepted loadjs call.
C18_DoneDoesNotRegister ==
    /\ DoneLeavesUsedIds
    /\ FirstLoadAccepted
    /\ UsedIdsGrowByAcceptedLoads

\* C18 witness: loadjs was called with a bundle id that done had been
\* called with and that still has the result done recorded; the call was
\* accepted and called loadFile.
C18_Witness ==
    /\ call.op = "load"
    /\ BundleIdOf(call) \in doneIds
    /\ BundleIdOf(call) \in DOMAIN bundleResultCache
    /\ Len(trace) > 0 /\ trace[1].ev = "loadFile"
    /\ loads[Len(loads)].bundleId = BundleIdOf(call)
    /\ BundleIdOf(call) \in bundleIdCache

\* the elements of load l that delivered their terminal event
ResolvedUnits(l) ==
    {i \in 1..Len(loads[l].paths) : loads[l].unit[i] # "pending"}

\* callbackFn of a load runs in a handler exactly if that handler's decrement
\* took the load's counter from above zero to zero
CallbackAtZero ==
    [][\A l \in 1..Len(loads) :
           loads'[l].cbCalls # loads[l].cbCalls
           <=> loads[l].numWaiting > 0 /\ loads'[l].numWaiting = 0]_vars

\* C19: with one terminal event per element, the counter of a load is the
\* number of its paths minus the number of terminal events it received and
\* lies between 0 and the number of paths; callbackFn has run (once) exactly
\* if a decrement brought the counter to zero.
C19_CounterMatchesEvents ==
    /\ [](\A l \in 1..Len(loads) :
             /\ loads[l].numWaiting
                  = Len(loads[l].paths) - Cardinality(ResolvedUnits(l))
             /\ loads[l].numWaiting >= 0
             /\ loads[l].numWaiting <= Len(loads[l].paths)
             /\ loads[l].cbCalls \in {0, 1}
             /\ loads[l].cbCalls = 1
                <=> loads[l].numWaiting = 0 /\ Len(loads[l].paths) > 0)
    /\ CallbackAtZero

\* C19 witness: the third terminal event of a three-path load arrived; the
\* counter is 0 and callbackFn ran in that handler.
C19_Witness ==
    /\ call.op = "event"
    /\ Len(loads[call.l].paths) = 3
    /\ Cardinality(ResolvedUnits(call.l)) = 3
    /\ loads[call.l].numWaiting = 0
    /\ loads[call.l].cbCalls = 1
    /\ \E k \in 1..Len(trace) : trace[k].ev = "loadcb"

====
